---- MODULE Spec2Model ----
(***************************************************************************)
(* Plan execution pipeline of the AI Operations Assistant:                 *)
(* ExecutorAgent.execute_plan / execute_step (src/agents/executor.py)      *)
(* running plan steps against the four connectors of src/tools.            *)
(***************************************************************************)
EXTENDS Integers, Sequences, FiniteSets, TLC

VARIABLES
    tools,        \* ExecutorAgent.tools: tool name -> connector class
    plan,         \* per run: the plan handed to execute_plan
    pc,           \* per run: position inside execute_plan / execute_step
    i,            \* per run: 1-based index of the step the for-loop is at
    step_result,  \* per run: `result` / `step_result` of the step in progress
    results,      \* per run: the `results` dict execute_plan builds
    invocations,  \* per run: history of the calls of `function` made
    entry,        \* per run: the operation the caller invoked
    llm_output,   \* per run: what LLMClient.generate_json does for the task
    verification, \* per run: the dict verify_results returned
    formatted_output \* per run: the report format_output returned

\* What the executor never touches: the caller's and the verifier's data.
task_vars == <<entry, llm_output, verification, formatted_output>>

vars == <<tools, plan, pc, i, step_result, results, invocations, task_vars>>

----------------------------------------------------------------------------
(* Python values *)

\* Python's None; str(None) and f"{None}" print it as the text None.
None == "None"

\* A dict with no keys (also the empty `raw_data`).
EmptyDict == [k \in {} |-> None]

\* dict.get(key, default)
Get(d, k, default) == IF k \in DOMAIN d THEN d[k] ELSE default

\* A result value: its Python type, the keys it has when it is a dict, the
\* text under its "error" key, and its elements when it is a list.
Dict(keys) == [type |-> "dict", keys |-> keys, error |-> "", items |-> <<>>]
List(items) == [type |-> "list", keys |-> {}, error |-> "", items |-> items]
NoneValue == [type |-> "NoneType", keys |-> {}, error |-> "", items |-> <<>>]
Object(cls) == [type |-> cls, keys |-> {}, error |-> "", items |-> <<>>]

\* {"error": msg}
ErrorPayload(msg) == [type |-> "dict", keys |-> {"error"}, error |-> msg, items |-> <<>>]

\* Variant of IsErrorDict that also sees the error mapping wrapped in a list.
IsErrorDictUnwrapping(result) ==
    \/ result.type = "dict" /\ "error" \in result.keys
    \/ result.type = "list" /\ result.items # <<>> /\ "error" \in result.items[1].keys

\* isinstance(result, dict) and "error" in result
IsErrorDict(result) == result.type = "dict" /\ "error" \in result.keys

----------------------------------------------------------------------------
(* The connectors (src/tools) *)

\* What the HTTP exchange of one capability call does:
\*   "data"             a well-formed JSON body with entries
\*   "empty"            a well-formed JSON body without entries
\*   "RequestException" requests.get / raise_for_status raises
\*   "malformed"        a JSON body of another shape than the connector reads,
\*                      so that its .get calls raise AttributeError
Responses == {"data", "empty", "RequestException", "malformed"}

ToolClass ==
    [github |-> "GitHubTool", weather |-> "WeatherTool",
     news |-> "NewsTool", serp |-> "SerpTool"]

RegisteredTools == DOMAIN ToolClass

Capabilities(tool) ==
    CASE tool = "weather" -> {"get_current_weather", "get_weather_forecast",
                              "get_weather_by_coordinates"}
      [] tool = "github"  -> {"search_repositories", "get_repository", "get_user_repos"}
      [] tool = "news"    -> {"get_top_headlines", "search_news", "get_sources"}
      [] tool = "serp"    -> {"search", "search_news", "search_images", "get_answer_box"}

\* Instance attributes set by __init__ that are not methods.
DataAttributes(tool) ==
    IF tool = "github" THEN {"api_key", "base_url", "headers"} ELSE {"api_key", "base_url"}

\* hasattr(tool, name), for name a string: methods, instance attributes and
\* what every object inherits (represented by __class__).
HasAttr(tool, name) ==
    name \in Capabilities(tool) \cup DataAttributes(tool) \cup {"__class__"}

\* "<collaborator> request failed: <detail>"
Collaborator(tool) ==
    CASE tool = "weather" -> "Weather API"
      [] tool = "github"  -> "GitHub API"
      [] tool = "news"    -> "News API"
      [] tool = "serp"    -> "SERP API"

RequestFailed(tool) == ErrorPayload(Collaborator(tool) \o " request failed: detail")

\* Capabilities whose return statement builds a list.
ListCapabilities ==
    {<<"github", "search_repositories">>, <<"github", "get_user_repos">>,
     <<"news", "get_top_headlines">>, <<"news", "search_news">>, <<"news", "get_sources">>,
     <<"serp", "search">>, <<"serp", "search_news">>, <<"serp", "search_images">>}

\* Keys of the dict a capability builds (per entry, for a list capability).
ResultKeys(tool, fn) ==
    CASE tool = "weather" /\ fn = "get_current_weather" ->
            {"city", "country", "temperature", "feels_like", "temp_min", "temp_max",
             "humidity", "pressure", "weather", "description", "wind_speed", "clouds", "units"}
      [] tool = "weather" /\ fn = "get_weather_forecast" ->
            {"city", "country", "forecasts", "units"}
      [] tool = "weather" /\ fn = "get_weather_by_coordinates" ->
            {"location", "temperature", "feels_like", "weather", "description",
             "humidity", "wind_speed", "units"}
      [] tool = "github" /\ fn = "search_repositories" ->
            {"name", "full_name", "description", "stars", "forks", "language", "url", "topics"}
      [] tool = "github" /\ fn = "get_repository" ->
            {"name", "full_name", "description", "stars", "forks", "watchers", "language",
             "url", "created_at", "updated_at", "open_issues", "topics"}
      [] tool = "github" /\ fn = "get_user_repos" ->
            {"name", "full_name", "description", "stars", "forks", "language", "url"}
      [] tool = "news" /\ fn \in {"get_top_headlines", "search_news"} ->
            {"title", "description", "source", "author", "url", "published_at", "content"}
      [] tool = "news" /\ fn = "get_sources" ->
            {"id", "name", "description", "url", "category", "country"}
      [] tool = "serp" /\ fn = "search" ->
            {"title", "link", "snippet", "displayed_link", "position"}
      [] tool = "serp" /\ fn = "search_news" ->
            {"title", "link", "snippet", "source", "date", "thumbnail"}
      [] tool = "serp" /\ fn = "search_images" ->
            {"title", "link", "source", "thumbnail", "original", "position"}
      [] tool = "serp" /\ fn = "get_answer_box" ->
            {"answer", "title", "link", "type"}

\* What a call returns or raises; http is what its HTTP exchange did, "none"
\* when the call made no request.
Return(value) == [raised |-> FALSE, value |-> value, message |-> "", http |-> "none"]
Raise(message) == [raised |-> TRUE, value |-> NoneValue, message |-> message, http |-> "none"]

\* `except requests.exceptions.RequestException` of a list capability.
ListRequestFailed(tool) == Return(List(<<RequestFailed(tool)>>))

\* `except requests.exceptions.RequestException` of a dict capability.
DictRequestFailed(tool) == Return(RequestFailed(tool))

\* What the body of capability `fn` of connector `tool` makes of `resp`.
Body(tool, fn, resp) ==
    IF resp = "malformed" THEN Raise("object has no attribute 'get'")
    ELSE IF <<tool, fn>> \in ListCapabilities THEN
        CASE resp = "RequestException" -> ListRequestFailed(tool)
          [] resp = "data"  -> Return(List(<<Dict(ResultKeys(tool, fn))>>))
          [] resp = "empty" -> Return(List(<<>>))
    ELSE
        CASE resp = "RequestException" -> DictRequestFailed(tool)
          [] resp = "data"  -> Return(Dict(ResultKeys(tool, fn)))
          [] resp = "empty" ->
                IF tool = "serp" /\ fn = "get_answer_box"
                THEN Return(NoneValue)
                ELSE Return(Dict(ResultKeys(tool, fn)))

\* Capability `fn` of connector `tool`, its request answered by `resp`.
Connector(tool, fn, resp) == [Body(tool, fn, resp) EXCEPT !.http = resp]

----------------------------------------------------------------------------
(* Calling an attribute of a connector with the step's parameters *)

\* The shapes of a step's "parameters":
\*   "kwargs"      a dict naming the capability's parameters, required ones included
\*   "{}"          the empty dict (also the default when the key is absent)
\*   "unexpected"  a dict with a keyword the function does not accept
\*   None          null
ParameterShapes == {"kwargs", "{}", "unexpected", None}

\* Capabilities all of whose parameters have defaults.
NoRequiredParameters == {<<"news", "get_top_headlines">>, <<"news", "get_sources">>}

\* Whether `**parameters` binds to the signature of capability fn.
Binds(tool, fn, parameters) ==
    \/ parameters = "kwargs"
    \/ parameters = "{}" /\ <<tool, fn>> \in NoRequiredParameters

\* str(e) of the TypeError that calling with the parameters raises before the
\* function body runs.
BindError(parameters) ==
    CASE parameters = None         -> "argument after ** must be a mapping, not NoneType"
      [] parameters = "unexpected" -> "got an unexpected keyword argument"
      [] parameters = "kwargs"     -> "got an unexpected keyword argument"
      [] parameters = "{}"         -> "missing required positional argument"

\* getattr(tool, fn) called with the parameters, for fn an attribute of the
\* connector. Unpacking null parameters raises before anything is called; a
\* capability runs its body, __class__ constructs a new connector (its
\* __init__ takes no arguments), any other attribute is not callable.
Call(cls, tool, fn, parameters, resp) ==
    IF parameters = None THEN Raise(BindError(parameters))
    ELSE IF fn \in Capabilities(tool) THEN
        IF Binds(tool, fn, parameters)
        THEN Connector(tool, fn, resp)
        ELSE Raise(BindError(parameters))
    ELSE IF fn = "__class__" THEN
        IF parameters = "{}" THEN Return(Object(cls)) ELSE Raise(BindError(parameters))
    ELSE Raise("object is not callable")

----------------------------------------------------------------------------
(* ExecutorAgent (src/agents/executor.py) *)

Steps(r) == Get(plan[r], "steps", <<>>)
Step(r) == Steps(r)[i[r]]

\* f"step_{step_number}"
StepKey(step_number) == "step_" \o ToString(step_number)

\* One entry of the call history.
Invocation(r, outcome) ==
    [step |-> i[r], tool |-> Step(r).tool, function |-> Step(r).function,
     parameters |-> Step(r).parameters, outcome |-> outcome]

\* Variant of StepRecord that also marks as failed a list whose first element
\* is an error mapping.
StepRecordUnwrapping(step, result) ==
    [step_number |-> step.step_number, action |-> step.action, tool |-> step.tool,
     function |-> step.function,
     status |-> IF \/ IsErrorDict(result)
                   \/ (result.type = "list" /\ result.items # <<>>
                        /\ IsErrorDict(result.items[1]))
                THEN "failed" ELSE "success",
     result |-> result]

\* The entry appended to steps_executed.
StepRecord(step, result) ==
    [step_number |-> step.step_number, action |-> step.action, tool |-> step.tool,
     function |-> step.function,
     status |-> IF ~IsErrorDict(result) THEN "success" ELSE "failed",
     result |-> result]

\* Variant of SetItem that keeps the value a key already has.
SetItemKeepFirst(d, k, v) == [x \in DOMAIN d \cup {k} |-> IF x \in DOMAIN d THEN d[x] ELSE v]

\* results["raw_data"][step_key] = step_result
SetItem(d, k, v) == [x \in DOMAIN d \cup {k} |-> IF x = k THEN v ELSE d[x]]

\* Variant of TrackErrors in which the errors list is one list of the
\* executor, shared by the execute_plan calls in progress.
TrackErrorsShared(errors, step, result) ==
    LET lists == {Get(results[r], "errors", <<>>) : r \in DOMAIN results}
        shared == CHOOSE e \in lists : \A other \in lists : Len(e) >= Len(other)
    IN  IF IsErrorDict(result)
        THEN Append(shared, [step |-> step.step_number, error |-> result.error])
        ELSE shared

\* The "Track errors" block.
TrackErrors(errors, step, result) ==
    IF IsErrorDict(result)
    THEN Append(errors, [step |-> step.step_number, error |-> result.error])
    ELSE errors

\* Variant of AfterStep that leaves the loop at the first failed step.
AfterStepStopOnError(r) ==
    IF i[r] < Len(Steps(r)) /\ ~IsErrorDict(step_result[r]) THEN "step" ELSE "finish"

\* Where the for-loop goes once step i is recorded.
AfterStep(r) == IF i[r] < Len(Steps(r)) THEN "step" ELSE "finish"

\* Variant of SetsFinalData that does not look at errors.
SetsFinalDataIgnoringErrors(res, steps) == DOMAIN res.raw_data # {} /\ steps # <<>>

\* The guard of the final_data assignment.
SetsFinalData(res, steps) ==
    res.errors = <<>> /\ DOMAIN res.raw_data # {} /\ steps # <<>>

\* f"step_{steps[-1].get('step_number')}"
LastStepKey(steps) == StepKey(steps[Len(steps)].step_number)

\* execute_plan, lines 24-31: the empty results and the steps to iterate.
StartPlan(r) ==
    /\ pc[r] = "start"
    /\ results' = [results EXCEPT ![r] =
            [task |-> Get(plan[r], "task_understanding", "Unknown task"),
             steps_executed |-> <<>>, errors |-> <<>>, raw_data |-> EmptyDict]]
    /\ i' = [i EXCEPT ![r] = 1]
    /\ pc' = [pc EXCEPT ![r] = IF Steps(r) = <<>> THEN "finish" ELSE "step"]
    /\ UNCHANGED <<tools, plan, step_result, invocations, task_vars>>

\* Variant of ToolRegistered in which looking a connector up removes it
\* from the registry: it is found only until a first call on it was made.
ToolRegisteredUntilUsed(tool_name) ==
    /\ tool_name \in DOMAIN tools
    /\ \A r \in DOMAIN invocations : \A j \in 1..Len(invocations[r]) :
            invocations[r][j].tool # tool_name

\* tool_name in self.tools (line 69)
ToolRegistered(tool_name) == tool_name \in DOMAIN tools

\* execute_step, lines 65-75: resolve the tool and the function.
\* hasattr(tool, None) raises TypeError outside the try block, and nothing in
\* execute_plan catches it.
ResolveStep(r) ==
    /\ pc[r] = "step"
    /\ LET step == Step(r) IN
        IF ~ToolRegistered(step.tool) THEN
            /\ step_result' = [step_result EXCEPT ![r] =
                    ErrorPayload("Tool '" \o step.tool \o "' not found")]
            /\ pc' = [pc EXCEPT ![r] = "record"]
        ELSE IF step.function = None THEN
            /\ pc' = [pc EXCEPT ![r] = "raised"]
            /\ UNCHANGED step_result
        ELSE IF ~HasAttr(step.tool, step.function) THEN
            /\ step_result' = [step_result EXCEPT ![r] =
                    ErrorPayload("Function '" \o step.function \o "' not found in tool '"
                                 \o step.tool \o "'")]
            /\ pc' = [pc EXCEPT ![r] = "record"]
        ELSE
            /\ pc' = [pc EXCEPT ![r] = "call"]
            /\ UNCHANGED step_result
    /\ UNCHANGED <<tools, plan, i, results, invocations, task_vars>>

\* The result of execute_step once a call has returned or raised (line 88).
Caught(outcome) ==
    IF outcome.raised
    THEN ErrorPayload("Execution failed: " \o outcome.message)
    ELSE outcome.value

\* Variant of NeedsRetry that never retries.
NeedsRetryNever(outcome) == FALSE

\* Variant of NeedsRetry that also retries a call that raised.
NeedsRetryAlsoRaised(outcome) == outcome.raised \/ IsErrorDict(outcome.value)

\* Whether line 82 sends the first result to the retry.
NeedsRetry(outcome) == ~outcome.raised /\ IsErrorDict(outcome.value)

\* execute_step, lines 77-82 and 87-88: the first call.
InvokeStep(r) ==
    /\ pc[r] = "call"
    /\ \E resp \in Responses :
        LET step == Step(r)
            outcome == Call(tools[step.tool], step.tool, step.function, step.parameters, resp)
        IN  /\ invocations' = [invocations EXCEPT ![r] = Append(@, Invocation(r, outcome))]
            /\ step_result' = [step_result EXCEPT ![r] = Caught(outcome)]
            /\ pc' = [pc EXCEPT ![r] = IF NeedsRetry(outcome) THEN "retry" ELSE "record"]
    /\ UNCHANGED <<tools, plan, i, results, task_vars>>

\* execute_step, lines 83-88: the one retry, whose result is returned as is.
RetryStep(r) ==
    /\ pc[r] = "retry"
    /\ \E resp \in Responses :
        LET step == Step(r)
            outcome == Call(tools[step.tool], step.tool, step.function, step.parameters, resp)
        IN  /\ invocations' = [invocations EXCEPT ![r] = Append(@, Invocation(r, outcome))]
            /\ step_result' = [step_result EXCEPT ![r] = Caught(outcome)]
            /\ pc' = [pc EXCEPT ![r] = "record"]
    /\ UNCHANGED <<tools, plan, i, results, task_vars>>

\* execute_plan, lines 37-55: record the step, store its raw data, track its error.
RecordStep(r) ==
    /\ pc[r] = "record"
    /\ LET step == Step(r)
           res == results[r]
       IN results' = [results EXCEPT ![r] =
            [task |-> res.task,
             steps_executed |-> Append(res.steps_executed, StepRecord(step, step_result[r])),
             errors |-> TrackErrors(res.errors, step, step_result[r]),
             raw_data |-> SetItem(res.raw_data, StepKey(step.step_number), step_result[r])]]
    /\ pc' = [pc EXCEPT ![r] = AfterStep(r)]
    /\ i' = [i EXCEPT ![r] = @ + 1]
    /\ UNCHANGED <<tools, plan, step_result, invocations, task_vars>>

\* execute_plan, lines 58-62: promote the last step's raw data and return.
FinishPlan(r) ==
    /\ pc[r] = "finish"
    /\ results' = [results EXCEPT ![r] =
            IF SetsFinalData(@, Steps(r))
            THEN SetItem(@, "final_data", Get(@.raw_data, LastStepKey(Steps(r)), NoneValue))
            ELSE @]
    /\ pc' = [pc EXCEPT ![r] = "done"]
    /\ UNCHANGED <<tools, plan, i, step_result, invocations, task_vars>>

----------------------------------------------------------------------------
(* Plans given to execute_plan *)

MaxSteps == 2

StepNumbers == {1, 2}

ToolNames == RegisteredTools \cup {"foo", None}

FunctionNames ==
    UNION {Capabilities(t) : t \in RegisteredTools}
        \cup {"api_key", "base_url", "headers", "__class__", "nope", None}

MakeStep(n, tool, fn, parameters) ==
    [step_number |-> n, action |-> "act", tool |-> tool, function |-> fn,
     parameters |-> parameters]

\* Every step over the names above.
AllSteps ==
    {MakeStep(n, t, f, p) : n \in StepNumbers, t \in ToolNames,
                            f \in FunctionNames, p \in ParameterShapes}

\* The steps that plans of several steps are made of: one for each way
\* execute_step can go.
StepCases ==
    {<<"weather", "get_current_weather", "kwargs">>,
     <<"news", "search_news", "kwargs">>,
     <<"serp", "get_answer_box", "kwargs">>,
     <<"github", "search_repositories", "kwargs">>,
     <<"news", "get_top_headlines", "{}">>,
     <<"weather", "get_current_weather", "unexpected">>,
     <<"foo", "get_current_weather", "kwargs">>,
     <<"weather", "nope", "kwargs">>,
     <<"weather", "api_key", "{}">>,
     <<"weather", "__class__", "{}">>,
     <<"weather", None, "kwargs">>}

CaseSteps == {MakeStep(n, c[1], c[2], c[3]) : n \in StepNumbers, c \in StepCases}

SeqsUpTo(S, n) == UNION {[1..k -> S] : k \in 0..n}

MakePlan(steps) ==
    [task_understanding |-> "task", required_tools |-> <<>>, steps |-> steps,
     expected_output |-> "output"]

Plans ==
    {MakePlan(s) : s \in SeqsUpTo(CaseSteps, MaxSteps) \cup {<<x>> : x \in AllSteps}}

----------------------------------------------------------------------------
(* Specification *)

\* ExecutorAgent.__init__ and one execute_plan call per run of R.
InitRuns(R) ==
    /\ tools = ToolClass
    /\ plan \in [R -> Plans]
    /\ pc = [r \in R |-> "start"]
    /\ i = [r \in R |-> 1]
    /\ step_result = [r \in R |-> NoneValue]
    /\ results = [r \in R |-> EmptyDict]
    /\ invocations = [r \in R |-> <<>>]
    /\ entry = [r \in R |-> "execute_plan"]
    /\ llm_output = [r \in R |-> EmptyDict]
    /\ verification = [r \in R |-> EmptyDict]
    /\ formatted_output = [r \in R |-> ""]

Init == InitRuns({1})

Next ==
    \/ \E r \in DOMAIN pc : StartPlan(r)
    \/ \E r \in DOMAIN pc : ResolveStep(r)
    \/ \E r \in DOMAIN pc : InvokeStep(r)
    \/ \E r \in DOMAIN pc : RetryStep(r)
    \/ \E r \in DOMAIN pc : RecordStep(r)
    \/ \E r \in DOMAIN pc : FinishPlan(r)

Spec == Init /\ [][Next]_vars

----------------------------------------------------------------------------
(* VerifierAgent (src/agents/verifier.py) *)

\* Variant of Truthy for which a dict whose "articles" value is empty is
\* empty too.
TruthyDeep(value) ==
    CASE value.type = "NoneType" -> FALSE
      [] value.type = "dict"     ->
            /\ value.keys # {}
            /\ "articles" \in value.keys => value.articles.items # <<>>
      [] value.type = "list"     -> value.items # <<>>
      [] OTHER                   -> TRUE

\* bool(value): None, the empty dict and the empty list are falsy.
Truthy(value) ==
    CASE value.type = "NoneType" -> FALSE
      [] value.type = "dict"     -> value.keys # {}
      [] value.type = "list"     -> value.items # <<>>
      [] OTHER                   -> TRUE

\* A key that a dict does not have.
Absent == "<absent>"

\* dict.get(key, default) for a value that is Absent when the key is missing.
OrDefault(value, default) == IF value = Absent THEN default ELSE value

\* A dict with the key "articles" (and `keys`), `articles` being its value.
ArticlesDict(keys, articles) ==
    [type |-> "dict", keys |-> keys \cup {"articles"}, error |-> "", items |-> <<>>,
     articles |-> articles]

\* The value under an article's "source": its Python type ("absent" when the
\* key is missing) and, for a dict, its "name".
Source(type, name) == [type |-> type, name |-> name]

\* One element of an articles list: its Python type and, for a dict, its entries.
Article(type, title, source, publishedAt, url) ==
    [type |-> type, title |-> title, source |-> source, publishedAt |-> publishedAt,
     url |-> url]

\* What building a text returns or raises.
Text(text) == [raised |-> FALSE, text |-> text, message |-> ""]
TextRaise(message) == [raised |-> TRUE, text |-> "", message |-> message]

\* "\n".join(lines)
RECURSIVE JoinLines(_)
JoinLines(lines) ==
    IF lines = <<>> THEN ""
    ELSE IF Len(lines) = 1 THEN lines[1]
    ELSE lines[1] \o "\n" \o JoinLines(Tail(lines))

\* article.get("source", {}).get("name", "Unknown source")
SourceName(source) ==
    CASE source.type = "absent" -> Text("Unknown source")
      [] source.type = "dict"   -> Text(OrDefault(source.name, "Unknown source"))
      [] OTHER -> TextRaise("'" \o source.type \o "' object has no attribute 'get'")

\* The entry lines 54-64 append for the k-th article.
ArticleEntry(k, article) ==
    IF article.type # "dict"
    THEN TextRaise("'" \o article.type \o "' object has no attribute 'get'")
    ELSE LET source == SourceName(article.source) IN
         IF source.raised THEN source
         ELSE Text(ToString(k) \o ". " \o OrDefault(article.title, "No title") \o "\n"
                   \o "   Source: " \o source.text \o "\n"
                   \o "   Published: " \o OrDefault(article.publishedAt, "Unknown date") \o "\n"
                   \o "   Link: " \o OrDefault(article.url, "") \o "\n")

\* The for-loop of lines 53-64 from the k-th article on: the entries, or the
\* first exception.
RECURSIVE ArticleEntries(_, _)
ArticleEntries(articles, k) ==
    IF k > Len(articles) THEN [raised |-> FALSE, lines |-> <<>>, message |-> ""]
    ELSE LET first == ArticleEntry(k, articles[k]) IN
         IF first.raised THEN [raised |-> TRUE, lines |-> <<>>, message |-> first.message]
         ELSE LET rest == ArticleEntries(articles, k + 1) IN
              IF rest.raised THEN rest
              ELSE [raised |-> FALSE, lines |-> <<first.text>> \o rest.lines, message |-> ""]

NoArticles == "No relevant news articles were found."

NewsHeader == "Here are the most recent Tesla-related news articles from the last month:\n"

\* The news branch, lines 44-66.
RenderNews(data) ==
    IF ~Truthy(data.articles) THEN Text(NoArticles)
    ELSE IF data.articles.type # "list"
    THEN TextRaise("'" \o data.articles.type \o "' object is not iterable")
    ELSE LET entries == ArticleEntries(data.articles.items, 1) IN
         IF entries.raised THEN TextRaise(entries.message)
         ELSE Text(JoinLines(<<NewsHeader>> \o entries.lines))

\* str(data.get(key)): the text of the value under key, None when it is missing.
ValueText(data, key) == IF key \in data.keys THEN "<" \o key \o ">" ELSE "None"

\* The weather branch, lines 70-76.
RenderWeather(data) ==
    Text("Current Weather Report:\n"
         \o "Temperature: " \o ValueText(data, "temperature") \o " "
         \o ValueText(data, "units") \o "\n"
         \o "Condition: " \o ValueText(data, "description") \o "\n"
         \o "Humidity: " \o ValueText(data, "humidity") \o "%\n"
         \o "Wind Speed: " \o ValueText(data, "wind_speed") \o " m/s")

\* The keys of a dict as str() shows them.
RECURSIVE KeysText(_)
KeysText(keys) ==
    IF keys = {} THEN ""
    ELSE LET k == CHOOSE x \in keys : TRUE IN
         "'" \o k \o "': " \o "<" \o k \o ">"
         \o (IF keys = {k} THEN "" ELSE ", " \o KeysText(keys \ {k}))

\* The elements of a list as str() shows them.
RECURSIVE ItemsText(_)
ItemsText(items) ==
    IF items = <<>> THEN ""
    ELSE "{" \o KeysText(items[1].keys) \o "}"
         \o (IF Len(items) = 1 THEN "" ELSE ", " \o ItemsText(Tail(items)))

\* str(data), line 79.
Str(data) ==
    CASE data.type = "dict"     -> "{" \o KeysText(data.keys) \o "}"
      [] data.type = "list"     -> "[" \o ItemsText(data.items) \o "]"
      [] data.type = "NoneType" -> "None"
      [] OTHER                  -> "<" \o data.type \o " object>"

\* Variant of FormatFinalAnswer that tests "temperature" before "articles".
FormatFinalAnswerWeatherFirst(data) ==
    IF data.type = "dict" /\ "temperature" \in data.keys THEN RenderWeather(data)
    ELSE IF data.type = "dict" /\ "articles" \in data.keys THEN RenderNews(data)
    ELSE Text(Str(data))

\* _format_final_answer, lines 40-79.
FormatFinalAnswer(data) ==
    IF data.type = "dict" /\ "articles" \in data.keys THEN RenderNews(data)
    ELSE IF data.type = "dict" /\ "temperature" \in data.keys THEN RenderWeather(data)
    ELSE Text(Str(data))

\* Variant of Incomplete that empties the errors of the results it carries.
IncompleteClearingErrors(reason, execution_results, confidence) ==
    [is_complete |-> FALSE, confidence |-> confidence,
     final_answer |-> "Unable to fully complete the task: " \o reason \o ".",
     issues_found |-> <<reason>>, missing_data |-> <<>>, suggestions |-> <<>>,
     raw_results |-> SetItem(execution_results, "errors", <<>>)]

\* _incomplete, lines 81-96.
Incomplete(reason, execution_results, confidence) ==
    [is_complete |-> FALSE, confidence |-> confidence,
     final_answer |-> "Unable to fully complete the task: " \o reason \o ".",
     issues_found |-> <<reason>>, missing_data |-> <<>>, suggestions |-> <<>>,
     raw_results |-> execution_results]

\* The dict of lines 31-38.
Complete(final_answer) ==
    [is_complete |-> TRUE, confidence |-> "high", final_answer |-> final_answer,
     issues_found |-> <<>>, missing_data |-> <<>>, suggestions |-> <<>>]

\* execution_results.get("errors") is truthy (line 12).
HasErrors(execution_results) == Get(execution_results, "errors", <<>>) # <<>>

\* Variant of NoFinalData that only sees a missing final_data.
NoFinalDataAbsentOnly(execution_results) == "final_data" \notin DOMAIN execution_results

\* not execution_results.get("final_data") (lines 20-21).
NoFinalData(execution_results) ==
    \/ "final_data" \notin DOMAIN execution_results
    \/ ~Truthy(execution_results.final_data)

\* What a verify_results call returns or raises.
Verified(value) == [raised |-> FALSE, value |-> value, message |-> ""]
VerifyRaise(message) == [raised |-> TRUE, value |-> EmptyDict, message |-> message]

\* Variant of VerifyResult that looks at final_data before errors.
VerifyResultDataFirst(execution_results) ==
    IF NoFinalData(execution_results)
    THEN Verified(Incomplete("No data returned from tools", execution_results, "low"))
    ELSE IF HasErrors(execution_results)
    THEN Verified(Incomplete("Execution errors occurred", execution_results, "low"))
    ELSE LET answer == FormatFinalAnswer(execution_results.final_data) IN
         IF answer.raised THEN VerifyRaise(answer.message)
         ELSE Verified(Complete(answer.text))

\* verify_results, lines 12-38.
VerifyResult(execution_results) ==
    IF HasErrors(execution_results)
    THEN Verified(Incomplete("Execution errors occurred", execution_results, "low"))
    ELSE IF NoFinalData(execution_results)
    THEN Verified(Incomplete("No data returned from tools", execution_results, "low"))
    ELSE LET answer == FormatFinalAnswer(execution_results.final_data) IN
         IF answer.raised THEN VerifyRaise(answer.message)
         ELSE Verified(Complete(answer.text))

\* "=" * 60
Banner == "============================================================"

\* str.upper() of a confidence label.
Upper(label) ==
    CASE label = "high" -> "HIGH"
      [] label = "low"  -> "LOW"
      [] OTHER          -> label

\* The status texts of line 104, their check mark and warning sign written
\* in ASCII.
StatusComplete == "[v] COMPLETE"
StatusIncomplete == "[!] INCOMPLETE"

\* The bullets of lines 110-111.
RECURSIVE IssueLines(_)
IssueLines(issues) ==
    IF issues = <<>> THEN <<>>
    ELSE <<"  - " \o issues[1]>> \o IssueLines(Tail(issues))

\* Variant of StatusLine with the two status texts exchanged.
StatusLineInverted(verification_result) ==
    "\nStatus: " \o (IF Get(verification_result, "is_complete", FALSE)
                     THEN StatusIncomplete ELSE StatusComplete)

\* Lines 104-105.
StatusLine(verification_result) ==
    "\nStatus: " \o (IF Get(verification_result, "is_complete", FALSE)
                     THEN StatusComplete ELSE StatusIncomplete)

\* format_output, lines 98-119.
FormatReport(verification_result) ==
    JoinLines(
        <<Banner, "AI OPERATIONS ASSISTANT - RESULTS", Banner,
          StatusLine(verification_result),
          "Confidence: " \o Upper(Get(verification_result, "confidence", ""))>>
        \o (IF Get(verification_result, "issues_found", <<>>) # <<>>
            THEN <<"\n[!] Issues Found:">> \o IssueLines(verification_result.issues_found)
            ELSE <<>>)
        \o <<"\n" \o Banner, "ANSWER:", Banner,
             Get(verification_result, "final_answer", "No answer available"),
             "\n" \o Banner>>)

\* verify_results as process_task (main.py, lines 177-181) or a caller of the
\* verifier runs it on the execution results; an exception leaves the call.
VerifyResults(r) ==
    /\ pc[r] = "done"
    /\ entry[r] \in {"process_task", "verify_results"}
    /\ LET outcome == VerifyResult(results[r]) IN
        IF outcome.raised
        THEN /\ pc' = [pc EXCEPT ![r] = "verify_raised"]
             /\ UNCHANGED verification
        ELSE /\ pc' = [pc EXCEPT ![r] = "verified"]
             /\ verification' = [verification EXCEPT ![r] = outcome.value]
    /\ UNCHANGED <<tools, plan, i, step_result, results, invocations,
                   entry, llm_output, formatted_output>>

\* format_output raises when the confidence has no upper() (line 106) or the
\* final answer cannot be joined (line 119): when either is None.
FormatRaises(verification_result) ==
    \/ Get(verification_result, "confidence", "") = None
    \/ Get(verification_result, "final_answer", "No answer available") = None

\* format_output on the verification result (main.py, line 186).
FormatOutput(r) ==
    /\ pc[r] = "verified"
    /\ IF FormatRaises(verification[r])
       THEN /\ pc' = [pc EXCEPT ![r] = "format_raised"]
            /\ UNCHANGED formatted_output
       ELSE /\ pc' = [pc EXCEPT ![r] = "formatted"]
            /\ formatted_output' =
                    [formatted_output EXCEPT ![r] = FormatReport(verification[r])]
    /\ UNCHANGED <<tools, plan, i, step_result, results, invocations,
                   entry, llm_output, verification>>

----------------------------------------------------------------------------
(* PlannerAgent.create_plan (src/agents/planner.py) and process_task
   (src/main.py) *)

\* What LLMClient.generate_json gives create_plan: an exception with its
\* message, or the parsed JSON with the Python type of its "steps" value.
LLMRaise(message) == [kind |-> "exception", message |-> message]
LLMJson(json, steps_type) == [kind |-> "json", json |-> json, steps_type |-> steps_type]

\* _validate_plan, lines 154-168.
RequiredFields == {"task_understanding", "required_tools", "steps", "expected_output"}
StepFields == {"step_number", "action", "tool", "function", "parameters"}

ValidatePlan(output) ==
    /\ RequiredFields \subseteq DOMAIN output.json
    /\ output.steps_type = "list"
    /\ \A k \in 1..Len(output.json.steps) : StepFields \subseteq DOMAIN output.json.steps[k]

\* The dict create_plan returns from its except clause, lines 146-152.
ErrorPlan(user_task, message) ==
    [task_understanding |-> user_task, required_tools |-> <<>>, steps |-> <<>>,
     expected_output |-> "Planning failed", error |-> message]

\* The body of create_plan's try block and its except clause, lines 133-152.
PlanOf(user_task, output) ==
    IF output.kind = "exception" THEN ErrorPlan(user_task, output.message)
    ELSE IF ~ValidatePlan(output)
    THEN ErrorPlan(user_task, "Generated plan does not match required schema")
    ELSE output.json

\* Variant of PlanFailed that never sees a planning failure.
PlanFailedNever(created) == FALSE

\* "error" in plan (main.py, line 159).
PlanFailed(created) == "error" \in DOMAIN created

\* plan = planner.create_plan(request.task) (main.py, line 157).
CreatePlan(r) ==
    /\ pc[r] = "planning"
    /\ plan' = [plan EXCEPT ![r] = PlanOf("task", llm_output[r])]
    /\ pc' = [pc EXCEPT ![r] = "planned"]
    /\ UNCHANGED <<tools, i, step_result, results, invocations, task_vars>>

\* The test of lines 159-163 of main.py: a failed plan raises the HTTP error
\* that ends the task, any other plan is handed to execute_plan.
CheckPlan(r) ==
    /\ pc[r] = "planned"
    /\ pc' = [pc EXCEPT ![r] = IF PlanFailed(plan[r]) THEN "aborted" ELSE "start"]
    /\ UNCHANGED <<tools, plan, i, step_result, results, invocations, task_vars>>

\* Outputs of the language model that fail validation: a missing top-level
\* field, steps that are not a list, a step without "parameters".
InvalidOutputs ==
    {LLMJson([task_understanding |-> "task", required_tools |-> <<>>, steps |-> <<>>],
             "list"),
     LLMJson(MakePlan(<<>>), "str"),
     LLMJson(MakePlan(<<[step_number |-> 1, action |-> "act", tool |-> "weather",
                         function |-> "get_current_weather"]>>), "list"),
     LLMJson(MakePlan(<<MakeStep(1, "weather", "get_current_weather", "kwargs"),
                        [step_number |-> 2, action |-> "act"]>>), "list")}

\* Failures of generate_json (src/llm/client.py, lines 58-105).
LLMFailures ==
    {LLMRaise("LLM generation failed: Connection error."),
     LLMRaise("LLM returned empty or invalid response"),
     LLMRaise("Failed to parse JSON from LLM response")}

\* Number of steps of the longest plan the language model returns.
MaxTaskSteps == 2

\* The steps of those plans: a dict capability, a list capability, a
\* capability that may return None, an unregistered tool and a missing function.
TaskCases ==
    {<<"weather", "get_current_weather", "kwargs">>,
     <<"news", "search_news", "kwargs">>,
     <<"serp", "get_answer_box", "kwargs">>,
     <<"foo", "get_current_weather", "kwargs">>,
     <<"weather", None, "kwargs">>}

\* Plans that pass validation, their steps numbered from 1.
TaskPlans ==
    {MakePlan([k \in DOMAIN cases |-> MakeStep(k, cases[k][1], cases[k][2], cases[k][3])]) :
        cases \in SeqsUpTo(TaskCases, MaxTaskSteps)}

LLMOutputs == LLMFailures \cup InvalidOutputs \cup {LLMJson(p, "list") : p \in TaskPlans}

\* A task handed to process_task: the planner has not been called yet.
InitProcess ==
    /\ tools = ToolClass
    /\ llm_output \in [{1} -> LLMOutputs]
    /\ plan = [r \in {1} |-> EmptyDict]
    /\ pc = [r \in {1} |-> "planning"]
    /\ i = [r \in {1} |-> 1]
    /\ step_result = [r \in {1} |-> NoneValue]
    /\ results = [r \in {1} |-> EmptyDict]
    /\ invocations = [r \in {1} |-> <<>>]
    /\ entry = [r \in {1} |-> "process_task"]
    /\ verification = [r \in {1} |-> EmptyDict]
    /\ formatted_output = [r \in {1} |-> ""]

\* Number of articles of the longest articles list given to the verifier.
MaxArticles == 2

\* The elements an articles list is made of: a full article, an article with
\* no key, a source without name, a source that is a string, a source that is
\* null, and an element that is not a mapping.
ArticleKinds ==
    {Article("dict", "Title", Source("dict", "Reuters"), "2026-01-01", "http://a"),
     Article("dict", Absent, Source("absent", Absent), Absent, Absent),
     Article("dict", "Title", Source("dict", Absent), "2026-01-01", "http://a"),
     Article("dict", "Title", Source("str", Absent), "2026-01-01", "http://a"),
     Article("dict", "Title", Source("NoneType", Absent), "2026-01-01", "http://a"),
     Article("str", Absent, Source("absent", Absent), Absent, Absent)}

\* Values under the key "articles": null, a number, and lists of articles.
ArticlesValues ==
    {NoneValue, Object("int")} \cup {List(a) : a \in SeqsUpTo(ArticleKinds, MaxArticles)}

\* final_data values given to verify_results.
FinalDatas ==
    {NoneValue, Dict({}), List(<<>>), Object("int"),
     Dict({"city", "temperature", "units", "description", "humidity", "wind_speed"}),
     Dict({"temperature"}), Dict({"title", "snippet"}),
     List(<<Dict({"title", "url"})>>), List(<<ErrorPayload("News API request failed: e")>>)}
    \cup {ArticlesDict(k, a) : k \in {{}, {"temperature", "units"}}, a \in ArticlesValues}

\* ExecutionResult values given to verify_results: no error or one, final_data
\* absent or present.
ErrorLists == {<<>>, <<[step |-> 1, error |-> "Tool 'foo' not found"]>>}

ExecutionResult(errors) ==
    [task |-> "task", steps_executed |-> <<>>, errors |-> errors, raw_data |-> EmptyDict]

ExecutionResults ==
    {ExecutionResult(e) : e \in ErrorLists}
    \cup {SetItem(ExecutionResult(e), "final_data", d) : e \in ErrorLists, d \in FinalDatas}

\* verify_results called with an ExecutionResult of the caller's.
InitVerifyCall ==
    /\ tools = ToolClass
    /\ llm_output = [r \in {1} |-> EmptyDict]
    /\ plan = [r \in {1} |-> MakePlan(<<>>)]
    /\ pc = [r \in {1} |-> "done"]
    /\ i = [r \in {1} |-> 1]
    /\ step_result = [r \in {1} |-> NoneValue]
    /\ results \in [{1} -> ExecutionResults]
    /\ invocations = [r \in {1} |-> <<>>]
    /\ entry = [r \in {1} |-> "verify_results"]
    /\ verification = [r \in {1} |-> EmptyDict]
    /\ formatted_output = [r \in {1} |-> ""]

InitTask == InitProcess \/ InitVerifyCall

NextTask ==
    \/ \E r \in DOMAIN pc : CreatePlan(r)
    \/ \E r \in DOMAIN pc : CheckPlan(r)
    \/ \E r \in DOMAIN pc : StartPlan(r)
    \/ \E r \in DOMAIN pc : ResolveStep(r)
    \/ \E r \in DOMAIN pc : InvokeStep(r)
    \/ \E r \in DOMAIN pc : RetryStep(r)
    \/ \E r \in DOMAIN pc : RecordStep(r)
    \/ \E r \in DOMAIN pc : FinishPlan(r)
    \/ \E r \in DOMAIN pc : VerifyResults(r)
    \/ \E r \in DOMAIN pc : FormatOutput(r)

SpecTask == InitTask /\ [][NextTask]_vars

----------------------------------------------------------------------------
(* Two tasks processed at once by the one executor of main.py *)

\* Number of steps of the longest plan of two concurrent runs.
MaxConcSteps == 1

\* The steps of concurrent plans: a dict capability, a list capability, an
\* unregistered tool and a missing function.
ConcCases ==
    {<<"weather", "get_current_weather", "kwargs">>,
     <<"news", "search_news", "kwargs">>,
     <<"foo", "get_current_weather", "kwargs">>,
     <<"weather", None, "kwargs">>}

ConcPlans ==
    {MakePlan(s) : s \in SeqsUpTo({MakeStep(1, c[1], c[2], c[3]) : c \in ConcCases},
                                  MaxConcSteps)}

\* Two execute_plan calls in progress on the executor created at line 35 of
\* main.py; the threads that run them interleave at every step.
InitConc ==
    /\ tools = ToolClass
    /\ plan \in [{1, 2} -> ConcPlans]
    /\ pc = [r \in {1, 2} |-> "start"]
    /\ i = [r \in {1, 2} |-> 1]
    /\ step_result = [r \in {1, 2} |-> NoneValue]
    /\ results = [r \in {1, 2} |-> EmptyDict]
    /\ invocations = [r \in {1, 2} |-> <<>>]
    /\ entry = [r \in {1, 2} |-> "execute_plan"]
    /\ llm_output = [r \in {1, 2} |-> EmptyDict]
    /\ verification = [r \in {1, 2} |-> EmptyDict]
    /\ formatted_output = [r \in {1, 2} |-> ""]

SpecConc == InitConc /\ [][Next]_vars

----------------------------------------------------------------------------
(* Vocabulary of the properties *)

Runs == DOMAIN pc

\* steps_executed of run r, empty before execute_plan has built `results`.
Executed(r) == Get(results[r], "steps_executed", <<>>)

\* The calls made for the k-th step of run r, in order.
CallsOf(r, k) == SelectSeq(invocations[r], LAMBDA c : c.step = k)

\* The call returned a mapping containing the key "error".
ReturnedErrorPayload(o) == ~o.raised /\ o.value.type = "dict" /\ "error" \in o.value.keys

\* execute_step has produced the outcome of the k-th step of run r.
Settled(r, k) == k <= Len(Executed(r)) \/ (k = i[r] /\ pc[r] = "record")

\* That outcome.
Outcome(r, k) == IF k <= Len(Executed(r)) THEN Executed(r)[k].result ELSE step_result[r]

HasFinalData(r) == "final_data" \in DOMAIN results[r]

----------------------------------------------------------------------------
(* Properties *)

\* C1: when execute_plan returns for a plan of at least one step whose steps all
\* ended in a success, errors is empty and final_data is the outcome of the
\* last step in plan order, which is raw_data["step_" + last.step_number],
\* also when steps share a step_number.
C1_FinalDataIsLastOutcome ==
    \A r \in Runs :
        (/\ pc[r] = "done"
         /\ Steps(r) # <<>>
         /\ \A k \in 1..Len(Executed(r)) : ~IsErrorDict(Executed(r)[k].result))
        => LET res == results[r]
               last == Steps(r)[Len(Steps(r))]
           IN  /\ res.errors = <<>>
               /\ HasFinalData(r)
               /\ StepKey(last.step_number) \in DOMAIN res.raw_data
               /\ res.final_data = res.raw_data[StepKey(last.step_number)]
               /\ Len(Executed(r)) = Len(Steps(r))
               /\ res.final_data = Executed(r)[Len(Executed(r))].result

\* C1 witness: a returned plan of two successful steps that share a
\* step_number and produced different outcomes.
C1_Witness ==
    \E r \in Runs :
        /\ pc[r] = "done"
        /\ Len(Steps(r)) = 2
        /\ Steps(r)[1].step_number = Steps(r)[2].step_number
        /\ Len(Executed(r)) = 2
        /\ Executed(r)[1].status = "success"
        /\ Executed(r)[2].status = "success"
        /\ Executed(r)[1].result # Executed(r)[2].result
        /\ HasFinalData(r)

\* C2 (as claimed): no step makes execute_step, and with it execute_plan, raise.
C2_NeverRaises == \A r \in Runs : pc[r] # "raised"

\* C3: a step's capability is called at most twice; a second call happens
\* exactly when the first call returned an ErrorPayload, it has the same
\* target and parameters, and what it returns is the step's outcome.
C3_RetryPolicy ==
    \A r \in Runs : \A k \in 1..Len(Steps(r)) :
        LET calls == CallsOf(r, k) IN
        /\ Len(calls) <= 2
        /\ Len(calls) = 2 =>
                /\ ReturnedErrorPayload(calls[1].outcome)
                /\ calls[2].tool = calls[1].tool
                /\ calls[2].function = calls[1].function
                /\ calls[2].parameters = calls[1].parameters
        /\ (Settled(r, k) /\ calls # <<>>) =>
                /\ ReturnedErrorPayload(calls[1].outcome) =>
                        /\ Len(calls) = 2
                        /\ ~calls[2].outcome.raised => Outcome(r, k) = calls[2].outcome.value
                /\ ~ReturnedErrorPayload(calls[1].outcome) => Len(calls) = 1

\* C3 witness: a recorded step whose first call returned an ErrorPayload and
\* whose retry returned data, which became the step's result.
C3_Witness ==
    \E r \in Runs : \E k \in 1..Len(Executed(r)) :
        LET calls == CallsOf(r, k) IN
        /\ Len(calls) = 2
        /\ ReturnedErrorPayload(calls[1].outcome)
        /\ calls[2].outcome.http = "data"
        /\ Executed(r)[k].result = calls[2].outcome.value
        /\ Executed(r)[k].status = "success"

\* C4: when the first call of a step raises, the exception is caught, the
\* step's outcome is {error: "Execution failed: <message>"} and no second
\* call is made for the step.
C4_ExceptionNotRetried ==
    \A r \in Runs : \A k \in 1..Len(Steps(r)) :
        LET calls == CallsOf(r, k) IN
        (calls # <<>> /\ calls[1].outcome.raised) =>
            /\ Len(calls) = 1
            /\ Settled(r, k)
            /\ Outcome(r, k) = ErrorPayload("Execution failed: " \o calls[1].outcome.message)

\* C4 witness: a recorded step whose only call raised inside the connector.
C4_Witness ==
    \E r \in Runs : \E k \in 1..Len(Executed(r)) :
        LET calls == CallsOf(r, k) IN
        /\ Len(calls) = 1
        /\ calls[1].outcome.raised
        /\ calls[1].outcome.http = "malformed"
        /\ Executed(r)[k].status = "failed"

\* C5 (as claimed): a recorded step whose every request failed had its
\* capability called exactly twice, is recorded as failed and has an entry
\* in errors.
C5_TransportFailureRetried ==
    \A r \in Runs : \A k \in 1..Len(Executed(r)) :
        LET calls == CallsOf(r, k) IN
        (calls # <<>> /\ \A j \in 1..Len(calls) : calls[j].outcome.http = "RequestException")
        =>  /\ Len(calls) = 2
            /\ Executed(r)[k].status = "failed"
            /\ \E e \in 1..Len(results[r].errors) :
                    results[r].errors[e].step = Executed(r)[k].step_number

\* C6 (as claimed): every capability call whose request failed returned a
\* mapping with the key "error" and the message
\* "<collaborator> request failed: <detail>".
C6_TransportFailureIsErrorPayload ==
    \A r \in Runs : \A j \in 1..Len(invocations[r]) :
        LET c == invocations[r][j] IN
        c.outcome.http = "RequestException" =>
            /\ ReturnedErrorPayload(c.outcome)
            /\ c.outcome.value.error = Collaborator(c.tool) \o " request failed: detail"

\* C7 (as claimed): whenever execute_plan ends, steps_executed has one record
\* per plan step and the k-th record describes the k-th step.
C7_EveryStepRuns ==
    \A r \in Runs :
        pc[r] \in {"done", "raised"} =>
            /\ Len(Executed(r)) = Len(Steps(r))
            /\ \A k \in 1..Len(Executed(r)) :
                    /\ Executed(r)[k].step_number = Steps(r)[k].step_number
                    /\ Executed(r)[k].tool = Steps(r)[k].tool
                    /\ Executed(r)[k].function = Steps(r)[k].function

\* C8: final_data is present only in a returned result with no errors, some
\* raw data and a plan of at least one step; it is absent whenever a step's
\* outcome is an ErrorPayload or the plan has no steps.
C8_FinalDataOnlyWithoutErrors ==
    \A r \in Runs :
        /\ HasFinalData(r) =>
                /\ pc[r] = "done"
                /\ results[r].errors = <<>>
                /\ DOMAIN results[r].raw_data # {}
                /\ Steps(r) # <<>>
        /\ pc[r] = "done" =>
                ((\/ Steps(r) = <<>>
                  \/ \E k \in 1..Len(Executed(r)) : IsErrorDict(Executed(r)[k].result))
                 => ~HasFinalData(r))

\* C8 witness: a returned plan of two steps, the first failed and the last
\* succeeded, with raw data and without final_data.
C8_Witness ==
    \E r \in Runs :
        /\ pc[r] = "done"
        /\ Len(Executed(r)) = 2
        /\ Executed(r)[1].status = "failed"
        /\ Executed(r)[2].status = "success"
        /\ DOMAIN results[r].raw_data # {}
        /\ ~HasFinalData(r)

\* C9: a step naming an unregistered tool gets {"error": "Tool '<tool>' not
\* found"} with no call made for it; execute_plan neither calls nor aborts at
\* such a step, and goes on to the steps after it.
C9_ToolNotFoundConfined ==
    \A r \in Runs :
        /\ \A k \in 1..Len(Executed(r)) :
                Steps(r)[k].tool \notin DOMAIN tools =>
                    /\ Executed(r)[k].result =
                            ErrorPayload("Tool '" \o Steps(r)[k].tool \o "' not found")
                    /\ Executed(r)[k].status = "failed"
                    /\ CallsOf(r, k) = <<>>
                    /\ (k < Len(Steps(r)) /\ pc[r] \in {"finish", "done"})
                            => Len(Executed(r)) = Len(Steps(r))
        /\ pc[r] \in {"call", "retry", "raised"} => Step(r).tool \in DOMAIN tools

\* C9 witness: a returned plan whose first step named the unregistered tool
\* foo and whose second step then ran and succeeded.
C9_Witness ==
    \E r \in Runs :
        /\ pc[r] = "done"
        /\ Len(Executed(r)) = 2
        /\ Steps(r)[1].tool = "foo"
        /\ Executed(r)[1].result = ErrorPayload("Tool 'foo' not found")
        /\ Executed(r)[2].status = "success"
        /\ CallsOf(r, 2) # <<>>

\* C10 (as claimed): a recorded step whose tool is registered and whose
\* function is not one of its capabilities has the outcome {error: "Function
\* '<function>' not found in tool '<tool>'"} and no call was made for it.
C10_FunctionNotFound ==
    \A r \in Runs : \A k \in 1..Len(Executed(r)) :
        LET step == Steps(r)[k] IN
        (step.tool \in DOMAIN tools /\ step.function \notin Capabilities(step.tool)) =>
            /\ Executed(r)[k].result =
                    ErrorPayload("Function '" \o step.function \o "' not found in tool '"
                                 \o step.tool \o "'")
            /\ CallsOf(r, k) = <<>>

----------------------------------------------------------------------------
(* Verification and reporting *)

\* verify_results was called on results[r], and it returned.
VerifyCalled(r) == pc[r] \in {"verified", "verify_raised", "formatted", "format_raised"}
VerifyReturned(r) == pc[r] \in {"verified", "formatted", "format_raised"}

\* s starts with prefix; sub occurs in s.
StartsWith(s, prefix) == Len(s) >= Len(prefix) /\ SubSeq(s, 1, Len(prefix)) = prefix
Contains(s, sub) == \E k \in 1..(Len(s) - Len(sub) + 1) : SubSeq(s, k, k + Len(sub) - 1) = sub

\* The verification of run r is the Incomplete result with this single reason.
IsIncomplete(r, reason) ==
    /\ VerifyReturned(r)
    /\ verification[r].is_complete = FALSE
    /\ verification[r].confidence = "low"
    /\ verification[r].issues_found = <<reason>>

\* C11 (as claimed): verify_results never raises, whatever final_data holds.
C11_VerifyNeverRaises == \A r \in Runs : pc[r] # "verify_raised"

\* C12: when errors is not empty, verify_results returns Incomplete with
\* confidence "low" and the single issue "Execution errors occurred", whatever
\* final_data holds.
C12_ErrorsTakePrecedence ==
    \A r \in Runs :
        (VerifyCalled(r) /\ results[r].errors # <<>>)
            => IsIncomplete(r, "Execution errors occurred")

\* C12 witness: a result with an error and a non-empty final_data was verified
\* as Incomplete for its errors.
C12_Witness ==
    \E r \in Runs :
        /\ IsIncomplete(r, "Execution errors occurred")
        /\ results[r].errors # <<>>
        /\ HasFinalData(r)
        /\ results[r].final_data.type = "dict"
        /\ "temperature" \in results[r].final_data.keys

\* final_data is absent, null, the empty mapping or the empty sequence.
FalsyFinalData(r) ==
    \/ ~HasFinalData(r)
    \/ results[r].final_data \in {NoneValue, Dict({}), List(<<>>)}

\* C13: when errors is empty and final_data is falsy, verify_results returns
\* Incomplete with confidence "low" and the single reason "No data returned
\* from tools"; execute_plan on a plan without steps returns errors = [],
\* raw_data = {} and no final_data, which is verified as that Incomplete.
C13_NoDataIsIncomplete ==
    \A r \in Runs :
        /\ (VerifyCalled(r) /\ results[r].errors = <<>> /\ FalsyFinalData(r))
                => IsIncomplete(r, "No data returned from tools")
        /\ (entry[r] # "verify_results" /\ Steps(r) = <<>>
                /\ pc[r] \in {"done", "verified", "verify_raised", "formatted", "format_raised"})
                => /\ results[r].errors = <<>>
                   /\ results[r].raw_data = EmptyDict
                   /\ ~HasFinalData(r)
                   /\ pc[r] # "done" => IsIncomplete(r, "No data returned from tools")

\* C13 witness: a task whose plan has no step went through execute_plan and
\* was verified as Incomplete for lack of data.
C13_Witness ==
    \E r \in Runs :
        /\ entry[r] = "process_task"
        /\ IsIncomplete(r, "No data returned from tools")
        /\ Steps(r) = <<>>
        /\ results[r].errors = <<>>
        /\ results[r].raw_data = EmptyDict
        /\ ~HasFinalData(r)

\* The planner's collaborator failed, or what it returned is not a plan.
PlanningFailure(output) == output.kind = "exception" \/ output \in InvalidOutputs

\* C14: when the language model fails or its output fails validation, the task
\* is aborted before execution: execute_plan, the connectors, verify_results
\* and format_output are never invoked for it.
C14_PlanningFailureIsTerminal ==
    \A r \in Runs :
        (entry[r] = "process_task" /\ PlanningFailure(llm_output[r]))
            => /\ pc[r] \in {"planning", "planned", "aborted"}
               /\ results[r] = EmptyDict
               /\ invocations[r] = <<>>
               /\ verification[r] = EmptyDict
               /\ formatted_output[r] = ""

\* C14 witness: a task whose plan failed validation was aborted.
C14_Witness ==
    \E r \in Runs :
        /\ pc[r] = "aborted"
        /\ llm_output[r].kind = "json"
        /\ plan[r].error = "Generated plan does not match required schema"

\* verify_results rendered the final_data of run r into a final answer.
Rendered(r) == VerifyReturned(r) /\ verification[r].is_complete

\* C15: the rendering is chosen by the shape of final_data alone: a mapping
\* with the key "articles" is rendered as news, also when it has the key
\* "temperature"; a mapping with "temperature" and without "articles" is
\* rendered as weather; any other payload is rendered by its string form.
C15_RenderingByShape ==
    \A r \in Runs :
        /\ Rendered(r) =>
            LET data == results[r].final_data
                answer == verification[r].final_answer
                news == \/ answer = "No relevant news articles were found."
                        \/ StartsWith(answer, "Here are the most recent Tesla-related news")
                weather == StartsWith(answer, "Current Weather Report:\nTemperature: ")
            IN  CASE data.type = "dict" /\ "articles" \in data.keys -> news /\ ~weather
                  [] data.type = "dict" /\ "temperature" \in data.keys -> weather /\ ~news
                  [] OTHER -> answer = Str(data) /\ ~news /\ ~weather
        /\ pc[r] = "verify_raised" =>
                /\ results[r].final_data.type = "dict"
                /\ "articles" \in results[r].final_data.keys

\* C15 witness: a mapping with both "articles" and "temperature" was rendered
\* as a list of news articles.
C15_Witness ==
    \E r \in Runs :
        /\ Rendered(r)
        /\ {"articles", "temperature"} \subseteq results[r].final_data.keys
        /\ StartsWith(verification[r].final_answer, NewsHeader \o "\n1. Title\n   Source: ")

\* C16: format_output returns a report for every result of verify_results:
\* its status line says COMPLETE exactly when is_complete holds and INCOMPLETE
\* otherwise, the "Issues Found" block is there exactly when issues_found is
\* not empty, and an Incomplete result has exactly one issue.
C16_ReportMatchesVerification ==
    \A r \in Runs :
        /\ pc[r] # "format_raised"
        /\ VerifyReturned(r) /\ ~verification[r].is_complete
                => Len(verification[r].issues_found) = 1
        /\ pc[r] = "formatted" =>
            LET report == formatted_output[r] IN
            /\ Contains(report, "\nStatus: [v] COMPLETE\n") <=> verification[r].is_complete
            /\ Contains(report, "\nStatus: [!] INCOMPLETE\n") <=> ~verification[r].is_complete
            /\ Contains(report, "Issues Found:") <=> verification[r].issues_found # <<>>
            /\ \A k \in 1..Len(verification[r].issues_found) :
                    Contains(report, "\n  - " \o verification[r].issues_found[k] \o "\n")
            /\ Contains(report, "\nANSWER:\n" \o Banner \o "\n" \o verification[r].final_answer)

\* C16 witness: the report of an Incomplete result, with its status line and
\* its single issue.
C16_Witness ==
    \E r \in Runs :
        /\ pc[r] = "formatted"
        /\ ~verification[r].is_complete
        /\ Contains(formatted_output[r], "\nStatus: [!] INCOMPLETE\nConfidence: LOW\n")
        /\ Contains(formatted_output[r], "Issues Found:\n  - No data returned from tools\n")

\* C18: final_data = {"articles": []} without errors is verified as Complete
\* with the final answer "No relevant news articles were found.".
C18_EmptyArticles ==
    \A r \in Runs :
        (/\ VerifyCalled(r)
         /\ results[r].errors = <<>>
         /\ HasFinalData(r)
         /\ results[r].final_data = ArticlesDict({}, List(<<>>)))
            => /\ Rendered(r)
               /\ verification[r].confidence = "high"
               /\ verification[r].final_answer = "No relevant news articles were found."

\* C18 witness: verify_results returned for {"articles": []} and no error.
C18_Witness ==
    \E r \in Runs :
        /\ Rendered(r)
        /\ results[r].errors = <<>>
        /\ results[r].final_data.type = "dict"
        /\ results[r].final_data.keys = {"articles"}
        /\ results[r].final_data.articles = List(<<>>)

----------------------------------------------------------------------------
(* execute_step as a function of its step, and the shape of the results *)

\* Steps j and k of run r name the same target with the same parameters.
SameCall(r, j, k) ==
    /\ Steps(r)[j].tool = Steps(r)[k].tool
    /\ Steps(r)[j].function = Steps(r)[k].function
    /\ Steps(r)[j].parameters = Steps(r)[k].parameters

\* Every call made for steps j and k of run r was a call of a connector
\* capability, and all of them met the same response: the capability behaved
\* as a function of its arguments.
Deterministic(r, j, k) ==
    LET calls == CallsOf(r, j) \o CallsOf(r, k) IN
    \A a \in 1..Len(calls) :
        /\ calls[a].function \in Capabilities(calls[a].tool)
        /\ calls[a].outcome.http = calls[1].outcome.http

\* C19: two execute_step calls with the same step, against capabilities that
\* answer the same way every time, give the same outcome after the same number
\* of calls, and the registry of connectors is never changed.
C19_ExecuteStepIdempotent ==
    /\ tools = ToolClass
    /\ \A r \in Runs : \A j, k \in 1..Len(Steps(r)) :
        (j < k /\ SameCall(r, j, k) /\ Settled(r, j) /\ Settled(r, k)
               /\ Deterministic(r, j, k))
            => /\ Outcome(r, j) = Outcome(r, k)
               /\ Len(CallsOf(r, j)) = Len(CallsOf(r, k))

\* C19 witness: the same step was executed twice, calling its capability (the
\* first call and the retry, each time with the same response), with the same
\* outcome.
C19_Witness ==
    \E r \in Runs :
        /\ Len(Steps(r)) = 2
        /\ SameCall(r, 1, 2)
        /\ Settled(r, 2)
        /\ Deterministic(r, 1, 2)
        /\ Len(CallsOf(r, 1)) = 2
        /\ Len(CallsOf(r, 2)) = 2
        /\ Outcome(r, 1) = Outcome(r, 2)
        /\ tools = ToolClass

\* The records of steps_executed with status "failed", in order.
Failed(r) == SelectSeq(Executed(r), LAMBDA record : record.status = "failed")

\* C20: a record of steps_executed has status "failed" exactly when its result
\* is a mapping containing the key "error" (a sequence is never failed); errors
\* holds one entry {step, error} per failed record, in plan order, with that
\* record's step_number and error message; so errors is no longer than
\* steps_executed, which on return has one record per plan step.
C20_StatusAndErrorsStructural ==
    \A r \in Runs :
        LET errors == Get(results[r], "errors", <<>>) IN
        /\ \A k \in 1..Len(Executed(r)) :
            LET record == Executed(r)[k] IN
            /\ record.status \in {"success", "failed"}
            /\ record.status = "failed"
                    <=> (record.result.type = "dict" /\ "error" \in record.result.keys)
            /\ record.result.type = "list" => record.status = "success"
        /\ Len(errors) = Len(Failed(r))
        /\ \A k \in 1..Len(errors) :
                errors[k] = [step |-> Failed(r)[k].step_number,
                             error |-> Failed(r)[k].result.error]
        /\ Len(errors) <= Len(Executed(r))
        /\ Len(Executed(r)) <= Len(Steps(r))
        /\ pc[r] = "done" => Len(Executed(r)) = Len(Steps(r))

\* C20 witness: execute_plan returned for two steps, the first recorded as a
\* success with a list that wraps an error, the second as failed with its
\* entry in errors.
C20_Witness ==
    \E r \in Runs :
        /\ pc[r] = "done"
        /\ Len(Executed(r)) = 2
        /\ Executed(r)[1].status = "success"
        /\ Executed(r)[1].result.type = "list"
        /\ Executed(r)[1].result.items # <<>>
        /\ "error" \in Executed(r)[1].result.items[1].keys
        /\ Executed(r)[2].status = "failed"
        /\ results[r].errors =
                <<[step |-> Executed(r)[2].step_number, error |-> Executed(r)[2].result.error]>>

----------------------------------------------------------------------------
(* Concurrent runs *)

\* What execute_step gives for a step when the capability's calls meet the
\* responses https (of which it uses one or two): the outcome and the number
\* of calls made.
StepAlone(step, https) ==
    IF step.tool \notin DOMAIN ToolClass
    THEN [result |-> ErrorPayload("Tool '" \o step.tool \o "' not found"), calls |-> 0]
    ELSE IF ~HasAttr(step.tool, step.function)
    THEN [result |-> ErrorPayload("Function '" \o step.function \o "' not found in tool '"
                                  \o step.tool \o "'"), calls |-> 0]
    ELSE LET first == Call(ToolClass[step.tool], step.tool, step.function,
                           step.parameters, https[1])
         IN  IF ~ReturnedErrorPayload(first)
             THEN [result |-> Caught(first), calls |-> 1]
             ELSE [result |-> Caught(Call(ToolClass[step.tool], step.tool, step.function,
                                          step.parameters, https[2])),
                   calls |-> 2]

\* What the loop of execute_plan makes of `res` from the k-th step on, run
\* alone, the connectors answering with https.
RECURSIVE LoopAlone(_, _, _, _)
LoopAlone(steps, k, https, res) ==
    IF k > Len(steps) THEN res
    ELSE LET outcome == StepAlone(steps[k], https)
             result == outcome.result
         IN  LoopAlone(steps, k + 1, SubSeq(https, outcome.calls + 1, Len(https)),
                [task |-> res.task,
                 steps_executed |-> Append(res.steps_executed,
                     [step_number |-> steps[k].step_number, action |-> steps[k].action,
                      tool |-> steps[k].tool, function |-> steps[k].function,
                      status |-> IF result.type = "dict" /\ "error" \in result.keys
                                 THEN "failed" ELSE "success",
                      result |-> result]),
                 errors |-> IF result.type = "dict" /\ "error" \in result.keys
                            THEN Append(res.errors, [step |-> steps[k].step_number,
                                                     error |-> result.error])
                            ELSE res.errors,
                 raw_data |-> SetItem(res.raw_data, StepKey(steps[k].step_number), result)])

\* The ExecutionResult of execute_plan run alone on plan p with those answers.
ResultAlone(p, https) ==
    LET res == LoopAlone(p.steps, 1, https,
                   [task |-> p.task_understanding, steps_executed |-> <<>>,
                    errors |-> <<>>, raw_data |-> EmptyDict])
    IN  IF res.errors = <<>> /\ p.steps # <<>>
        THEN SetItem(res, "final_data", res.raw_data[StepKey(p.steps[Len(p.steps)].step_number)])
        ELSE res

\* The responses the connectors gave run r, in order.
Https(r) == [k \in 1..Len(invocations[r]) |-> invocations[r][k].outcome.http]

\* C17: however two execute_plan runs on the one executor interleave, the
\* ExecutionResult of each is the one it gives running alone with the same
\* connector responses, and the registry of connectors is never modified.
C17_RunsAreIndependent ==
    /\ tools = ToolClass
    /\ \A r \in Runs : pc[r] = "done" => results[r] = ResultAlone(plan[r], Https(r))

\* C17 witness: two runs have returned, each with its own failed step after a
\* retry, and their errors differ.
C17_Witness ==
    /\ Runs = {1, 2}
    /\ \A r \in Runs :
        /\ pc[r] = "done"
        /\ Len(results[r].errors) = 1
        /\ Len(invocations[r]) = 2
    /\ results[1].errors # results[2].errors

----------------------------------------------------------------------------
(* Stages and the outputs of earlier stages *)

\* execute_plan is running for r; verify_results, format_output is next.
Executing(r) == pc[r] \in {"start", "step", "call", "retry", "record", "finish"}
Verifying(r) == pc[r] = "done" /\ entry[r] \in {"process_task", "verify_results"}
Formatting(r) == pc[r] = "verified"

\* What a step of run r leaves alone, by the stage that takes it.
KeepsEarlierOutputs(r) ==
    /\ Executing(r) => plan'[r] = plan[r]
    /\ Verifying(r) =>
            /\ plan'[r] = plan[r]
            /\ results'[r] = results[r]
            /\ (pc'[r] = "verified" /\ ~verification'[r].is_complete)
                    => verification'[r].raw_results = results[r]
    /\ Formatting(r) =>
            /\ plan'[r] = plan[r]
            /\ results'[r] = results[r]
            /\ verification'[r] = verification[r]

\* C21: no stage changes the output of an earlier one: execute_plan leaves the
\* plan as it was, verify_results leaves the ExecutionResult and the plan,
\* format_output leaves the VerificationResult, and the raw_results of an
\* Incomplete result is the ExecutionResult verify_results was given.
C21_EarlierOutputsKept ==
    /\ [][\A r \in Runs : KeepsEarlierOutputs(r)]_vars
    /\ [](\A r \in Runs :
            /\ (VerifyReturned(r) /\ ~verification[r].is_complete)
                    => verification[r].raw_results = results[r]
            /\ (entry[r] = "process_task" /\ (Executing(r) \/ pc[r] = "done" \/ VerifyCalled(r)))
                    => plan[r] = llm_output[r].json)

\* C21 witness: a task was planned, executed with a failed step, verified as
\* Incomplete and reported; the plan is the planner's, and the raw_results of
\* the verification is the ExecutionResult with its error.
C21_Witness ==
    \E r \in Runs :
        /\ pc[r] = "formatted"
        /\ entry[r] = "process_task"
        /\ ~verification[r].is_complete
        /\ plan[r] = llm_output[r].json
        /\ Len(plan[r].steps) = 2
        /\ Len(results[r].steps_executed) = 2
        /\ results[r].errors # <<>>
        /\ verification[r].raw_results = results[r]
        /\ formatted_output[r] # ""

----------------------------------------------------------------------------
(* A plan from execution to verification *)

\* The plan of run r has a step, no step ended with a mapping containing
\* "error", and the last step's outcome is not empty.
Usable(r) ==
    /\ Len(Steps(r)) >= 1
    /\ \A k \in 1..Len(Steps(r)) :
            ~(Outcome(r, k).type = "dict" /\ "error" \in Outcome(r, k).keys)
    /\ Outcome(r, Len(Steps(r))) \notin {NoneValue, Dict({}), List(<<>>)}

\* C22: a plan run through execute_plan and then verify_results is verified as
\* Complete with confidence "high" exactly when it has a step, no step's final
\* outcome (after its possible retry) is a mapping containing "error" and the
\* last step's outcome is not empty; otherwise it is Incomplete with
\* confidence "low". A failed first attempt followed by a successful retry
\* leaves nothing in errors.
C22_CompleteIffUsable ==
    \A r \in Runs :
        (entry[r] = "process_task" /\ VerifyCalled(r)) =>
            /\ pc[r] # "verify_raised"
            /\ Len(Executed(r)) = Len(Steps(r))
            /\ verification[r].is_complete <=> Usable(r)
            /\ Usable(r) => verification[r].confidence = "high" /\ results[r].errors = <<>>
            /\ ~Usable(r) =>
                    /\ verification[r].confidence = "low"
                    /\ verification[r].is_complete = FALSE

\* C22 witness: the only step of a plan failed on its first call and gave data
\* on the retry; errors is empty and the verification is Complete.
C22_Witness ==
    \E r \in Runs :
        /\ entry[r] = "process_task"
        /\ Rendered(r)
        /\ verification[r].confidence = "high"
        /\ Len(Steps(r)) = 1
        /\ Len(CallsOf(r, 1)) = 2
        /\ ReturnedErrorPayload(CallsOf(r, 1)[1].outcome)
        /\ results[r].errors = <<>>
        /\ results[r].final_data = CallsOf(r, 1)[2].outcome.value

====
